---- MODULE Spec2Model ----
(***************************************************************************)
(* Model of multiqc/modules/prokka/prokka.py: MultiqcModule.__init__,      *)
(* parse_prokka and prokka_barplot.                                        *)
(*                                                                         *)
(* A text line is a sequence of one-character strings, newline included,   *)
(* as readline() and file iteration return it.  The str methods the code   *)
(* uses (startswith, strip, split, join, int) are operators computed the   *)
(* way Python 3 computes them.  A file is a sequence of lines, the batch   *)
(* is the sequence of files find_log_files yields, each known by its name. *)
(***************************************************************************)
EXTENDS Integers, Sequences, FiniteSets

(***************************************************************************)
(* Python str primitives                                                   *)
(***************************************************************************)

NL == "\n"

\* characters str.split() / str.strip() / int() treat as whitespace
Whitespace == {" ", "\t", NL, "\r"}

Digits == <<"0", "1", "2", "3", "4", "5", "6", "7", "8", "9">>

IsDigit(c) == \E i \in 1..10 : Digits[i] = c

DigitVal(c) == (CHOOSE i \in 1..10 : Digits[i] = c) - 1

\* s.startswith(p)
StartsWith(s, p) == Len(s) >= Len(p) /\ SubSeq(s, 1, Len(p)) = p

\* s[i:] with a 1-based first index
From(s, i) == SubSeq(s, i, Len(s))

\* index of the first character of s satisfying "not whitespace", 0 if none
FirstNonSpace(s) ==
    IF \E i \in 1..Len(s) : s[i] \notin Whitespace
    THEN CHOOSE i \in 1..Len(s) : s[i] \notin Whitespace
                                  /\ \A j \in 1..(i - 1) : s[j] \in Whitespace
    ELSE 0

LastNonSpace(s) ==
    IF \E i \in 1..Len(s) : s[i] \notin Whitespace
    THEN CHOOSE i \in 1..Len(s) : s[i] \notin Whitespace
                                  /\ \A j \in (i + 1)..Len(s) : s[j] \in Whitespace
    ELSE 0

\* s.strip()
Strip(s) ==
    IF FirstNonSpace(s) = 0 THEN <<>>
    ELSE SubSeq(s, FirstNonSpace(s), LastNonSpace(s))

\* index of the first occurrence of character c in s, 0 if none
Find(s, c) ==
    IF \E i \in 1..Len(s) : s[i] = c
    THEN CHOOSE i \in 1..Len(s) : s[i] = c /\ \A j \in 1..(i - 1) : s[j] # c
    ELSE 0

\* s.split(c): split at every occurrence of the character c
RECURSIVE SplitAll(_, _)
SplitAll(s, c) ==
    IF Find(s, c) = 0 THEN <<s>>
    ELSE <<SubSeq(s, 1, Find(s, c) - 1)>> \o SplitAll(From(s, Find(s, c) + 1), c)

\* s.split(c, maxsplit=1): split at the first occurrence of c only
SplitFirst(s, c) ==
    IF Find(s, c) = 0 THEN <<s>>
    ELSE <<SubSeq(s, 1, Find(s, c) - 1), From(s, Find(s, c) + 1)>>

\* length of the leading run of non-whitespace characters of s
RECURSIVE WordLen(_)
WordLen(s) ==
    IF s = <<>> \/ Head(s) \in Whitespace THEN 0 ELSE 1 + WordLen(Tail(s))

\* s.split(): the maximal runs of non-whitespace characters
RECURSIVE SplitWS(_)
SplitWS(s) ==
    IF FirstNonSpace(s) = 0 THEN <<>>
    ELSE LET t == From(s, FirstNonSpace(s))
         IN  <<SubSeq(t, 1, WordLen(t))>> \o SplitWS(From(t, WordLen(t) + 1))

\* " ".join(tokens)
RECURSIVE Join(_)
Join(tokens) ==
    IF tokens = <<>> THEN <<>>
    ELSE IF Len(tokens) = 1 THEN tokens[1]
    ELSE tokens[1] \o <<" ">> \o Join(Tail(tokens))

\* value of a string of decimal digits
RECURSIVE DigitsVal(_)
DigitsVal(s) ==
    IF s = <<>> THEN 0
    ELSE 10 * DigitsVal(SubSeq(s, 1, Len(s) - 1)) + DigitVal(s[Len(s)])

\* the digits of an int() literal with the single underscores between digits
\* removed
RECURSIVE DropUnderscores(_)
DropUnderscores(s) ==
    IF s = <<>> THEN <<>>
    ELSE IF Head(s) = "_" THEN DropUnderscores(Tail(s))
    ELSE <<Head(s)>> \o DropUnderscores(Tail(s))

\* the body of an int() literal, after the sign: digits, single underscores
\* only between digits
IsIntBody(b) ==
    /\ b # <<>>
    /\ \A i \in 1..Len(b) : IsDigit(b[i]) \/ b[i] = "_"
    /\ IsDigit(b[1]) /\ IsDigit(b[Len(b)])
    /\ \A i \in 1..(Len(b) - 1) : ~(b[i] = "_" /\ b[i + 1] = "_")

Unsigned(t) == IF t # <<>> /\ Head(t) \in {"+", "-"} THEN Tail(t) ELSE t

\* int(s) succeeds: optional whitespace, optional sign, digits
IsInt(s) == IsIntBody(Unsigned(Strip(s)))

\* int(s) when it succeeds
IntVal(s) ==
    LET t == Strip(s)
        v == DigitsVal(DropUnderscores(Unsigned(t)))
    IN  IF t # <<>> /\ Head(t) = "-" THEN 0 - v ELSE v

(***************************************************************************)
(* String literals of prokka.py                                            *)
(***************************************************************************)

\* 'organism'
S_organism ==
    <<"o", "r", "g", "a", "n", "i", "s", "m">>

\* 'contigs'
S_contigs ==
    <<"c", "o", "n", "t", "i", "g", "s">>

\* 'bases'
S_bases ==
    <<"b", "a", "s", "e", "s">>

\* 'CDS'
S_CDS ==
    <<"C", "D", "S">>

\* 'rRNA'
S_rRNA ==
    <<"r", "R", "N", "A">>

\* 'tRNA'
S_tRNA ==
    <<"t", "R", "N", "A">>

\* 'tmRNA'
S_tmRNA ==
    <<"t", "m", "R", "N", "A">>

\* 'misc_RNA'
S_misc_RNA ==
    <<"m", "i", "s", "c", "_", "R", "N", "A">>

\* 'sig_peptide'
S_sig_peptide ==
    <<"s", "i", "g", "_", "p", "e", "p", "t", "i", "d", "e">>

\* 'organism:'
P_organism ==
    <<"o", "r", "g", "a", "n", "i", "s", "m", ":">>

\* 'contigs:'
P_contigs ==
    <<"c", "o", "n", "t", "i", "g", "s", ":">>

\* 'bases:'
P_bases ==
    <<"b", "a", "s", "e", "s", ":">>

(***************************************************************************)
(* Input lines.  FL_ are first lines, CL_ second lines, BL_ third lines,   *)
(* T_ trailing lines.                                                      *)
(***************************************************************************)

\* 'organism: Escherichia coli strain K12_sample1\n'
FL_Ecoli ==
    <<"o", "r", "g", "a", "n", "i", "s", "m", ":", " ", "E", "s", "c", "h",
      "e", "r", "i", "c", "h", "i", "a", " ", "c", "o", "l", "i", " ", "s",
      "t", "r", "a", "i", "n", " ", "K", "1", "2", "_", "s", "a", "m", "p",
      "l", "e", "1", NL>>

\* 'organism: A b x S1\n'
FL_S1 ==
    <<"o", "r", "g", "a", "n", "i", "s", "m", ":", " ", "A", " ", "b", " ",
      "x", " ", "S", "1", NL>>

\* 'organism:  A\tb  x   S1 \n'
FL_S1Wide ==
    <<"o", "r", "g", "a", "n", "i", "s", "m", ":", " ", " ", "A", "\t", "b",
      " ", " ", "x", " ", " ", " ", "S", "1", " ", NL>>

\* 'organism: A b\n'
FL_NoId ==
    <<"o", "r", "g", "a", "n", "i", "s", "m", ":", " ", "A", " ", "b", NL>>

\* 'organism:A b c d\n'
FL_Tight ==
    <<"o", "r", "g", "a", "n", "i", "s", "m", ":", "A", " ", "b", " ", "c",
      " ", "d", NL>>

\* 'organism: A:b c d e\n'
FL_Colon ==
    <<"o", "r", "g", "a", "n", "i", "s", "m", ":", " ", "A", ":", "b", " ",
      "c", " ", "d", " ", "e", NL>>

\* 'Organism: A b x S1\n'
FL_Case ==
    <<"O", "r", "g", "a", "n", "i", "s", "m", ":", " ", "A", " ", "b", " ",
      "x", " ", "S", "1", NL>>

\* ' organism: A b x S1\n'
FL_Lead ==
    <<" ", "o", "r", "g", "a", "n", "i", "s", "m", ":", " ", "A", " ", "b",
      " ", "x", " ", "S", "1", NL>>

\* 'contigs: 5\n'
CL_5 ==
    <<"c", "o", "n", "t", "i", "g", "s", ":", " ", "5", NL>>

\* 'contigs: 5:3\n'
CL_Two ==
    <<"c", "o", "n", "t", "i", "g", "s", ":", " ", "5", ":", "3", NL>>

\* 'contigs: x\n'
CL_Bad ==
    <<"c", "o", "n", "t", "i", "g", "s", ":", " ", "x", NL>>

\* 'Contigs: 5\n'
CL_Case ==
    <<"C", "o", "n", "t", "i", "g", "s", ":", " ", "5", NL>>

\* 'bases: 4641652\n'
BL_Ecoli ==
    <<"b", "a", "s", "e", "s", ":", " ", "4", "6", "4", "1", "6", "5", "2", NL>>

\* 'bases: 12\n'
BL_12 ==
    <<"b", "a", "s", "e", "s", ":", " ", "1", "2", NL>>

\* 'bases: y\n'
BL_Bad ==
    <<"b", "a", "s", "e", "s", ":", " ", "y", NL>>

\* 'bases 12\n'
BL_NoColon ==
    <<"b", "a", "s", "e", "s", " ", "1", "2", NL>>

\* 'CDS:4289\n'
T_CDS ==
    <<"C", "D", "S", ":", "4", "2", "8", "9", NL>>

\* 'rRNA:22\n'
T_rRNA ==
    <<"r", "R", "N", "A", ":", "2", "2", NL>>

\* 'tRNA:86\n'
T_tRNA ==
    <<"t", "R", "N", "A", ":", "8", "6", NL>>

\* 'tRNA: -3 '
T_tRNAEof ==
    <<"t", "R", "N", "A", ":", " ", "-", "3", " ">>

\* 'CDS:7\n'
T_CDS7 ==
    <<"C", "D", "S", ":", "7", NL>>

\* 'CDS:n/a\n'
T_CDSBad ==
    <<"C", "D", "S", ":", "n", "/", "a", NL>>

\* 'sig_peptide:notanumber\n'
T_Sig ==
    <<"s", "i", "g", "_", "p", "e", "p", "t", "i", "d", "e", ":", "n", "o",
      "t", "a", "n", "u", "m", "b", "e", "r", NL>>

\* '\n'
T_Blank ==
    <<NL>>

\* 'no separator\n'
T_NoSep ==
    <<"n", "o", " ", "s", "e", "p", "a", "r", "a", "t", "o", "r", NL>>

\* 'tmRNA:1:2\n'
T_TwoSep ==
    <<"t", "m", "R", "N", "A", ":", "1", ":", "2", NL>>

\* 'contigs:abc\n'
T_Contigs ==
    <<"c", "o", "n", "t", "i", "g", "s", ":", "a", "b", "c", NL>>

\* 'organism:7\n'
T_Organism ==
    <<"o", "r", "g", "a", "n", "i", "s", "m", ":", "7", NL>>


(***************************************************************************)
(* Input files: the candidate files find_log_files can yield, by name.     *)
(***************************************************************************)

\* the report of the Escherichia coli example
F_Ecoli == <<FL_Ecoli, CL_5, BL_Ecoli, T_CDS, T_rRNA, T_tRNA>>

\* tRNA listed before CDS, last line without a newline
F_S1 == <<FL_S1, CL_5, BL_12, T_tRNA, T_CDS7, T_tRNAEof>>

\* the same sample identifier as F_S1 with other fields
F_S1Wide == <<FL_S1Wide, CL_Two, BL_12, T_rRNA>>

\* fewer than four tokens on the first line, no trailing line
F_NoId == <<FL_NoId, CL_5, BL_12>>

\* a non-integer value between valid lines
F_SigBad == <<FL_Colon, CL_5, BL_12, T_CDS, T_Sig, T_rRNA>>

\* a field given twice, the second time with a non-integer value
F_CDSTwice == <<FL_Tight, CL_5, BL_12, T_CDS, T_CDSBad>>

\* trailing lines named like the fields of the first three lines
F_HeaderNames == <<FL_NoId, CL_5, BL_12, T_Contigs, T_Organism>>

\* a blank line between valid lines
F_Blank == <<FL_Tight, CL_5, BL_12, T_CDS, T_Blank, T_rRNA>>

\* a non-integer value, then a line without separator, then a valid line
F_NoSep == <<FL_Colon, CL_5, BL_12, T_Sig, T_NoSep, T_tRNA>>

\* a line with two separators before a valid line
F_TwoSep == <<FL_Ecoli, CL_5, BL_12, T_TwoSep, T_tRNA>>

\* a non-integer contigs value
F_BadContigs == <<FL_S1, CL_Bad, BL_12, T_CDS>>

\* a non-integer bases value
F_BadBases == <<FL_Colon, CL_5, BL_Bad, T_CDS>>

\* files that do not pass the three-prefix test
F_Case == <<FL_Case, CL_5, BL_12, T_CDS>>
F_Lead == <<FL_Lead, CL_5, BL_12, T_CDS>>
F_SecondLine == <<FL_S1, CL_Case, BL_12, T_CDS>>
F_ThirdLine == <<FL_S1, CL_5, BL_NoColon, T_CDS>>
F_TwoLines == <<FL_S1, CL_5>>
F_Empty == <<>>

\* the names of the candidate files
FileNames ==
    {"Ecoli.txt", "S1.txt", "S1Wide.txt", "NoId.txt", "SigBad.txt",
     "CDSTwice.txt", "HeaderNames.txt", "Blank.txt", "NoSep.txt",
     "TwoSep.txt", "BadContigs.txt", "BadBases.txt", "Case.txt", "Lead.txt",
     "SecondLine.txt", "ThirdLine.txt", "TwoLines.txt", "Empty.txt"}

\* the lines of the file of a name
Content ==
    [fn \in FileNames |->
      CASE fn = "Ecoli.txt" -> F_Ecoli
        [] fn = "S1.txt" -> F_S1
        [] fn = "S1Wide.txt" -> F_S1Wide
        [] fn = "NoId.txt" -> F_NoId
        [] fn = "SigBad.txt" -> F_SigBad
        [] fn = "CDSTwice.txt" -> F_CDSTwice
        [] fn = "HeaderNames.txt" -> F_HeaderNames
        [] fn = "Blank.txt" -> F_Blank
        [] fn = "NoSep.txt" -> F_NoSep
        [] fn = "TwoSep.txt" -> F_TwoSep
        [] fn = "BadContigs.txt" -> F_BadContigs
        [] fn = "BadBases.txt" -> F_BadBases
        [] fn = "Case.txt" -> F_Case
        [] fn = "Lead.txt" -> F_Lead
        [] fn = "SecondLine.txt" -> F_SecondLine
        [] fn = "ThirdLine.txt" -> F_ThirdLine
        [] fn = "TwoLines.txt" -> F_TwoLines
        [] fn = "Empty.txt" -> F_Empty]

\* largest number of files in a batch
MaxFiles == 2

Batches == UNION {[1..n -> FileNames] : n \in 0..MaxFiles}

(***************************************************************************)
(* dict values.  A dict is a function from keys to values; a value of a    *)
(* sample's dict is a str or an int.                                       *)
(***************************************************************************)

EmptyDict == <<>>

StrValue(s) == [type |-> "str", str |-> s, int |-> 0]

IntValue(n) == [type |-> "int", str |-> <<>>, int |-> n]

\* d[k] = v
Put(d, k, v) == [x \in (DOMAIN d) \cup {k} |-> IF x = k THEN v ELSE d[x]]

\* a name no line of text equals: the value None of s_name
None == <<"None">>

(***************************************************************************)
(* parse_prokka, statement by statement                                    *)
(***************************************************************************)

\* f['f'].readline() for the i-th line: '' at the end of the file
ReadLine(f, i) == IF i <= Len(f) THEN f[i] ELSE <<>>

\* mutation of Recognized: only the organism line is tested
Recognized_FirstLineOnly(first_line, contigs_line, bases_line) ==
    StartsWith(first_line, P_organism)

\* the test of the first three lines
Recognized(first_line, contigs_line, bases_line) ==
    /\ StartsWith(first_line, P_organism)
    /\ StartsWith(contigs_line, P_contigs)
    /\ StartsWith(bases_line, P_bases)

\* s[:2] of a list of tokens
FirstTwo(tokens) == SubSeq(tokens, 1, IF Len(tokens) < 2 THEN Len(tokens) ELSE 2)

\* mutation of Organism: the line is split at every colon
Organism_SplitAll(first_line) ==
    Join(FirstTwo(SplitWS(SplitAll(Strip(first_line), ":")[2])))

\* " ".join(first_line.strip().split(":", maxsplit=1)[1].split()[:2])
Organism(first_line) ==
    Join(FirstTwo(SplitWS(SplitFirst(Strip(first_line), ":")[2])))

\* " ".join(first_line.split()[3:])
SampleName(first_line) == Join(From(SplitWS(first_line), 4))

\* mutation of NewEntry: an entry the table already has is kept
NewEntry_Keep(t, s) == IF s \in DOMAIN t THEN t ELSE Put(t, s, EmptyDict)

\* self.prokka[s_name] = dict()
NewEntry(t, s) == Put(t, s, EmptyDict)

\* self.prokka[s_name][k] = v
SetField(t, s, k, v) == [t EXCEPT ![s] = Put(t[s], k, v)]

\* contigs_line.split(":")[1], bases_line.split(":")[1]
HeaderValue(line) == SplitAll(line, ":")[2]

\* line.split(":")
TrailingParts(line) == SplitAll(line, ":")

\* description, value = ... : the unpacking succeeds for exactly two parts
Unpacks(parts) == Len(parts) = 2

\* mutation of TryStore: a value that is no integer is stored as 0
TryStore_Zero(t, s, description, value) ==
    IF IsInt(value) THEN SetField(t, s, description, IntValue(IntVal(value)))
    ELSE SetField(t, s, description, IntValue(0))

\* try: self.prokka[s_name][description] = int(value)
\* except ValueError: log.debug(...)
TryStore(t, s, description, value) ==
    IF IsInt(value) THEN SetField(t, s, description, IntValue(IntVal(value)))
    ELSE t

\* the lines log.debug("Unable to parse line: '%s'", line) has been given
TryLog(log, line, value) == IF IsInt(value) THEN log ELSE Append(log, line)

(***************************************************************************)
(* __init__ after the loop, prokka_barplot                                 *)
(***************************************************************************)

\* mutation of NoData: a table of one sample counts as empty
NoData_AtMostOne(t) == Cardinality(DOMAIN t) <= 1

\* len(self.prokka) == 0
NoData(t) == Cardinality(DOMAIN t) = 0

\* keys[k] = ... on an OrderedDict, as its list of keys
OrderedSet(keys, k) ==
    IF \E i \in 1..Len(keys) : keys[i] = k THEN keys ELSE Append(keys, k)

\* the columns of the general statistics table, in the order they are set
Headers ==
    OrderedSet(OrderedSet(OrderedSet(OrderedSet(OrderedSet(OrderedSet(OrderedSet(
        <<>>, S_organism), S_bases), S_CDS), S_tRNA), S_rRNA), S_tmRNA),
        S_sig_peptide)

\* mutation of BarplotKeys: the order of the general statistics columns
BarplotKeys_TableOrder ==
    OrderedSet(OrderedSet(OrderedSet(OrderedSet(OrderedSet(OrderedSet(
        <<>>, S_CDS), S_tRNA), S_rRNA), S_tmRNA), S_misc_RNA), S_sig_peptide)

\* the categories of the bar plot, in the order they are set
BarplotKeys ==
    OrderedSet(OrderedSet(OrderedSet(OrderedSet(OrderedSet(OrderedSet(
        <<>>, S_CDS), S_rRNA), S_tRNA), S_tmRNA), S_misc_RNA), S_sig_peptide)

NoReport ==
    [written |-> FALSE, data_file |-> EmptyDict,
     general_stats |-> EmptyDict, headers |-> <<>>,
     plot_data |-> EmptyDict, plot_keys |-> <<>>]

\* write_data_file, general_stats_addcols and prokka_barplot are handed the
\* table
Report(t) ==
    [written |-> TRUE, data_file |-> t,
     general_stats |-> t, headers |-> Headers,
     plot_data |-> t, plot_keys |-> BarplotKeys]

(***************************************************************************)
(* State                                                                   *)
(***************************************************************************)

VARIABLES
    files,      \* the names of the files find_log_files yields, in order
    idx,        \* number of files taken from it; f is the idx-th
    pc,         \* position in __init__ / parse_prokka
    ln,         \* number of lines read from f
    s_name,     \* parse_prokka's s_name
    organism,   \* parse_prokka's organism, None while unset
    prokka,     \* self.prokka
    log,        \* lines logged as unparseable
    exc,        \* the exception that left __init__, "none" if none
    report      \* what the data file, the table and the plot were given

vars == <<files, idx, pc, ln, s_name, organism, prokka, log, exc, report>>

f == Content[files[idx]]

Init ==
    /\ files \in Batches
    /\ idx = 0
    /\ pc = "files"
    /\ ln = 0
    /\ s_name = None
    /\ organism = None
    /\ prokka = EmptyDict
    /\ log = <<>>
    /\ exc = "none"
    /\ report = NoReport

\* for f in self.find_log_files(...): self.parse_prokka(f), up to the test
\* of the first three lines; a file that fails it is left
NextFile ==
    /\ pc = "files"
    /\ idx < Len(files)
    /\ idx' = idx + 1
    /\ s_name' = None
    /\ organism' = None
    /\ ln' = 3
    /\ LET file == Content[files[idx']]
       IN  pc' = IF Recognized(ReadLine(file, 1), ReadLine(file, 2),
                               ReadLine(file, 3))
                 THEN "name" ELSE "files"
    /\ UNCHANGED <<files, prokka, log, exc, report>>

\* organism = ...; s_name = ...; self.prokka[s_name] = dict()
SetName ==
    /\ pc = "name"
    /\ organism' = Organism(f[1])
    /\ s_name' = SampleName(f[1])
    /\ prokka' = NewEntry(prokka, s_name')
    /\ pc' = "organism"
    /\ UNCHANGED <<files, idx, ln, log, exc, report>>

\* self.prokka[s_name]['organism'] = organism
SetOrganism ==
    /\ pc = "organism"
    /\ prokka' = SetField(prokka, s_name, S_organism, StrValue(organism))
    /\ pc' = "contigs"
    /\ UNCHANGED <<files, idx, ln, s_name, organism, log, exc, report>>

\* self.prokka[s_name]['contigs'] = int(contigs_line.split(":")[1])
SetContigs ==
    /\ pc = "contigs"
    /\ IF IsInt(HeaderValue(f[2]))
       THEN /\ prokka' = SetField(prokka, s_name, S_contigs,
                                  IntValue(IntVal(HeaderValue(f[2]))))
            /\ pc' = "bases"
            /\ exc' = exc
       ELSE /\ prokka' = prokka
            /\ pc' = "raised"
            /\ exc' = "ValueError"
    /\ UNCHANGED <<files, idx, ln, s_name, organism, log, report>>

\* self.prokka[s_name]['bases'] = int(bases_line.split(":")[1])
SetBases ==
    /\ pc = "bases"
    /\ IF IsInt(HeaderValue(f[3]))
       THEN /\ prokka' = SetField(prokka, s_name, S_bases,
                                  IntValue(IntVal(HeaderValue(f[3]))))
            /\ pc' = "lines"
            /\ exc' = exc
       ELSE /\ prokka' = prokka
            /\ pc' = "raised"
            /\ exc' = "ValueError"
    /\ UNCHANGED <<files, idx, ln, s_name, organism, log, report>>

\* one pass of: for line in f['f']
TrailingLine ==
    /\ pc = "lines"
    /\ ln < Len(f)
    /\ ln' = ln + 1
    /\ \E line \in {f[ln']} : \E parts \in {TrailingParts(line)} :
           IF Unpacks(parts)
           THEN /\ prokka' = TryStore(prokka, s_name, parts[1], parts[2])
                /\ log' = TryLog(log, line, parts[2])
                /\ pc' = "lines"
                /\ exc' = exc
           ELSE /\ prokka' = prokka
                /\ log' = log
                /\ pc' = "raised"
                /\ exc' = "ValueError"
    /\ UNCHANGED <<files, idx, s_name, organism, report>>

\* the file is exhausted: parse_prokka returns
EndOfFile ==
    /\ pc = "lines"
    /\ ln >= Len(f)
    /\ pc' = "files"
    /\ UNCHANGED <<files, idx, ln, s_name, organism, prokka, log, exc, report>>

\* if len(self.prokka) == 0: raise UserWarning
RaiseNoData ==
    /\ pc = "files"
    /\ idx = Len(files)
    /\ NoData(prokka)
    /\ pc' = "nodata"
    /\ exc' = "UserWarning"
    /\ UNCHANGED <<files, idx, ln, s_name, organism, prokka, log, report>>

\* write_data_file, general_stats_addcols, prokka_barplot
MakeReport ==
    /\ pc = "files"
    /\ idx = Len(files)
    /\ ~NoData(prokka)
    /\ report' = Report(prokka)
    /\ pc' = "done"
    /\ UNCHANGED <<files, idx, ln, s_name, organism, prokka, log, exc>>

Next ==
    \/ NextFile
    \/ SetName
    \/ SetOrganism
    \/ SetContigs
    \/ SetBases
    \/ TrailingLine
    \/ EndOfFile
    \/ RaiseNoData
    \/ MakeReport

Spec == Init /\ [][Next]_vars

(***************************************************************************)
(* parse_prokka and the loop over the files as functions of the table:     *)
(* the table a call leaves behind and the exception it ends with           *)
(***************************************************************************)

\* for line in f['f']: ..., with n lines of the file already read
RECURSIVE TrailingLines(_, _, _, _)
TrailingLines(t, s, file, n) ==
    IF n >= Len(file) THEN [prokka |-> t, exc |-> "none"]
    ELSE LET parts == TrailingParts(file[n + 1])
         IN  IF Unpacks(parts)
             THEN TrailingLines(TryStore(t, s, parts[1], parts[2]), s, file, n + 1)
             ELSE [prokka |-> t, exc |-> "ValueError"]

\* self.parse_prokka(f) on the table t
ParseProkka(t, file) ==
    IF ~Recognized(ReadLine(file, 1), ReadLine(file, 2), ReadLine(file, 3))
    THEN [prokka |-> t, exc |-> "none"]
    ELSE LET s == SampleName(file[1])
             t1 == SetField(NewEntry(t, s), s, S_organism,
                            StrValue(Organism(file[1])))
             t2 == SetField(t1, s, S_contigs,
                            IntValue(IntVal(HeaderValue(file[2]))))
             t3 == SetField(t2, s, S_bases,
                            IntValue(IntVal(HeaderValue(file[3]))))
         IN  IF ~IsInt(HeaderValue(file[2]))
             THEN [prokka |-> t1, exc |-> "ValueError"]
             ELSE IF ~IsInt(HeaderValue(file[3]))
             THEN [prokka |-> t2, exc |-> "ValueError"]
             ELSE TrailingLines(t3, s, file, 3)

\* for f in ...: self.parse_prokka(f), from the table t
RECURSIVE ParseFiles(_, _)
ParseFiles(t, fs) ==
    IF fs = <<>> THEN [prokka |-> t, exc |-> "none"]
    ELSE LET r == ParseProkka(t, Head(fs))
         IN  IF r.exc # "none" THEN r ELSE ParseFiles(r.prokka, Tail(fs))

(***************************************************************************)
(* Vocabulary of the properties                                            *)
(***************************************************************************)

\* the i-th file of the batch
File(i) == Content[files[i]]

\* the first three lines of a file start with organism:, contigs:, bases:
HasThreePrefixes(file) ==
    /\ Len(file) >= 3
    /\ StartsWith(file[1], P_organism)
    /\ StartsWith(file[2], P_contigs)
    /\ StartsWith(file[3], P_bases)

\* the whole line split on whitespace, tokens from index 3 on, joined
TokensFromFourth(line) == Join(From(SplitWS(line), 4))

\* the first two tokens of the text after the first colon, joined
TwoTokensAfterColon(line) ==
    Join(FirstTwo(SplitWS(From(line, Find(line, ":") + 1))))

\* the i-th file of the batch has the three prefixes
Has(i) == HasThreePrefixes(File(i))

\* the identifier of the i-th file of the batch
Id(i) == TokensFromFourth(File(i)[1])

\* the file being parsed has passed the test and its organism is stored
Extracted == idx >= 1 /\ s_name # None /\ pc # "organism"

\* the trailing lines of the current file read so far
LinesRead == IF idx >= 1 /\ s_name # None THEN 4..ln ELSE {}

\* a line of the form name:value with exactly one colon
OneColon(line) == Len(SplitAll(line, ":")) = 2

NameOf(line) == SplitAll(line, ":")[1]

ValueOf(line) == SplitAll(line, ":")[2]

\* a line name:integer
ValidLine(line) == OneColon(line) /\ IsInt(ValueOf(line))

\* the files of the batch parsed to their end
Returned(j) ==
    j \in 1..idx /\ (j < idx \/ pc \in {"files", "done", "nodata"})

Terminated == pc \in {"done", "nodata", "raised"}

\* 'strain K12_sample1'
X_EcoliId ==
    <<"s", "t", "r", "a", "i", "n", " ", "K", "1", "2", "_", "s", "a", "m",
      "p", "l", "e", "1">>

\* 'Escherichia coli'
X_EcoliOrg ==
    <<"E", "s", "c", "h", "e", "r", "i", "c", "h", "i", "a", " ", "c", "o",
      "l", "i">>

(***************************************************************************)
(* C1: a file whose first three lines do not start with organism:,         *)
(* contigs:, bases: in this order (a file of fewer than three lines        *)
(* included) produces no record: the call returns with the table exactly   *)
(* as it was, whatever it held.                                            *)
(***************************************************************************)
C1_Rejection ==
    [][(idx' = idx + 1 /\ ~HasThreePrefixes(File(idx')))
        => (prokka' = prokka /\ pc' = "files" /\ exc' = "none")]_vars

\* a file was rejected while the table held a record
C1_Witness ==
    /\ idx = 2 /\ pc = "files"
    /\ ~Has(2)
    /\ prokka # EmptyDict

OrganismLines == {k \in LinesRead : ValidLine(f[k]) /\ NameOf(f[k]) = S_organism}

Logged(line) == \E i \in 1..Len(log) : log[i] = line

\* parsing stopped with an exception at the k-th line of the current file
RaisedAt(k) == pc = "raised" /\ ln = k

(***************************************************************************)
(* C3: in a recognized file a trailing line without a colon (a blank line  *)
(* included) is logged and skipped without raising, and parsing goes on    *)
(* with the lines after it.                                                *)
(***************************************************************************)
C3_MissingSeparator ==
    \A k \in LinesRead :
        Find(f[k], ":") = 0 => (~RaisedAt(k) /\ Logged(f[k]))

(***************************************************************************)
(* C5: every trailing line is split at its first colon only; a line with   *)
(* two or more colons never raises or stops the parsing, its value is the  *)
(* text after the first colon, stored if an integer, logged otherwise.     *)
(***************************************************************************)
C5_FirstColonSplit ==
    \A k \in LinesRead :
        Len(SplitAll(f[k], ":")) > 2 =>
            /\ ~RaisedAt(k)
            /\ IF IsInt(SplitFirst(f[k], ":")[2])
               THEN SplitFirst(f[k], ":")[1] \in DOMAIN prokka[s_name]
               ELSE Logged(f[k])

ValidRead == {k \in LinesRead : ValidLine(f[k])}

\* the loop over the trailing lines has been entered
InLoop ==
    /\ idx >= 1 /\ s_name # None
    /\ pc \in {"lines", "files", "done"} \/ (pc = "raised" /\ ln > 3)

RecordOf(file) == ParseProkka(EmptyDict, file).prokka[TokensFromFourth(file[1])]

(***************************************************************************)
(* C6: when two recognized files yield the same sample identifier, after   *)
(* both are processed the entry of that identifier is exactly the record   *)
(* of the later file: no field of the earlier file survives.               *)
(***************************************************************************)
C6_Overwrite ==
    \A i \in 1..idx : \A j \in 1..idx :
        ( /\ i < j /\ Returned(j)
          /\ Has(i) /\ Has(j)
          /\ Id(i) = Id(j)
          /\ \A k \in (j + 1)..idx :
                 Has(k) => Id(k) # Id(j) )
        => /\ Id(j) \in DOMAIN prokka
           /\ prokka[Id(j)] = RecordOf(File(j))

\* two files of one identifier are processed; the fields CDS and tRNA of the
\* first are gone
C6_Witness ==
    /\ files = <<"S1.txt", "S1Wide.txt">> /\ pc = "done"
    /\ DOMAIN prokka = {TokensFromFourth(FL_S1)}
    /\ DOMAIN prokka[TokensFromFourth(FL_S1)]
         = {S_organism, S_contigs, S_bases, S_rRNA}

(***************************************************************************)
(* C7: once all files of the batch are processed, UserWarning is raised    *)
(* exactly when no file was recognized, which is exactly when the table is *)
(* empty; otherwise nothing is raised and the table is handed to the data  *)
(* file, the general table and the bar plot.                               *)
(***************************************************************************)
C7_EmptyInput ==
    /\ exc = "UserWarning" <=> pc = "nodata"
    /\ pc \in {"done", "nodata"} => idx = Len(files)
    /\ Terminated =>
           /\ pc = "nodata" <=> (\A i \in 1..Len(files) : ~Has(i))
           /\ pc = "nodata" <=> prokka = EmptyDict
    /\ pc = "nodata" => report = NoReport
    /\ pc = "done" =>
           /\ exc = "none"
           /\ report.written
           /\ report.data_file = prokka
           /\ report.general_stats = prokka
           /\ report.plot_data = prokka

\* a batch of two files, none recognized, ends with the signal
C7_Witness ==
    /\ Len(files) = 2 /\ idx = 2
    /\ pc = "nodata" /\ exc = "UserWarning"

(***************************************************************************)
(* C8: the categories handed to the bar plot are CDS, rRNA, tRNA, tmRNA,   *)
(* misc_RNA, sig_peptide in this order, whatever the table holds and in    *)
(* whatever order the fields came; contigs and bases are not among them.   *)
(***************************************************************************)
C8_ChartSeries ==
    report.written =>
        /\ report.plot_keys
             = <<S_CDS, S_rRNA, S_tRNA, S_tmRNA, S_misc_RNA, S_sig_peptide>>
        /\ \A i \in 1..Len(report.plot_keys) :
               report.plot_keys[i] \notin {S_contigs, S_bases}

\* the plot is made of a table with a record whose tRNA came before its CDS
C8_Witness ==
    /\ pc = "done" /\ report.written
    /\ \E i \in 1..Len(files) :
           /\ File(i) = F_S1
           /\ TokensFromFourth(FL_S1) \in DOMAIN report.plot_data
           /\ S_tRNA \in DOMAIN report.plot_data[TokensFromFourth(FL_S1)]

(***************************************************************************)
(* C9: in every reachable state, the states while a file is parsed and     *)
(* the states an error leaves behind included, every record of the table   *)
(* has at least organism, contigs and bases.                               *)
(***************************************************************************)
C9_RecordComplete ==
    \A s \in DOMAIN prokka :
        {S_organism, S_contigs, S_bases} \subseteq DOMAIN prokka[s]

\* the orders of n files: the permutations of 1..n
Orders(n) ==
    {p \in [1..n -> 1..n] : \A a \in 1..n : \A b \in 1..n : p[a] = p[b] => a = b}

\* the recognized files of the batch have pairwise distinct identifiers
DistinctIdentifiers ==
    \A i \in 1..Len(files) : \A j \in 1..Len(files) :
        ( /\ i # j
          /\ Has(i) /\ Has(j) )
        => Id(i) # Id(j)

(***************************************************************************)
(* C10: for a batch whose recognized files have pairwise distinct          *)
(* identifiers, the final table is the same for every order in which the   *)
(* files are processed.                                                    *)
(***************************************************************************)
C10_OrderIndependence ==
    (Terminated /\ DistinctIdentifiers) =>
        \A p \in Orders(Len(files)) :
            ParseFiles(EmptyDict, [i \in 1..Len(files) |-> File(p[i])]).prokka
                = prokka

====
